---- MODULE Spec2Model ----
(***************************************************************************)
(* A model of src/app.js: the session store (GC_TOKEN, GC_REGION and the   *)
(* tab-scoped sessionStorage), the HTTP request layer (apiBase, buildUrl,  *)
(* apiFetch), the pagination walker (getAllPages), the eight lookup        *)
(* fetchers and the React shell that drives them (SplashLogin, App).       *)
(*                                                                         *)
(* JavaScript values are modelled as follows.  Strings are TLA+ strings;   *)
(* undefined and null are the two reserved strings below.  A JSON object   *)
(* is a function whose DOMAIN is the set of the fields that are present.   *)
(* A thrown error or rejected promise is [ok |-> FALSE, error |-> msg], a  *)
(* returned value [ok |-> TRUE, value |-> v].                              *)
(***************************************************************************)
EXTENDS Naturals, Sequences, FiniteSets, TLC

VARIABLES
    GC_TOKEN,        \* app.js:17  module-level token
    GC_REGION,       \* app.js:18  module-level region
    sessionStorage,  \* the tab-scoped storage: a function key -> string
    network,         \* the fetch() calls issued and not yet settled
    call,            \* a direct call of apiFetch, buildUrl or parseAuthHash by a caller
    walks,           \* the getAllPages activations, by walk id <<load, resource>>
    page,            \* where the tab is: "app" or, after Sign in, "login"
    hash,            \* location.hash, parsed into its <<key, value>> fields
    authorizeUrl,    \* the last URL handed to window.location.assign
    mounted,         \* root.render has run and the mount effects with it
    step,            \* App: useState(1)
    me,              \* App: the profile of /api/v2/users/me
    loadingLookups,  \* App: useState(false)
    lookups,         \* App: the eight option lists
    splash,          \* SplashLogin: whether it is mounted, and its form state
    criteria,        \* App: the list fields and the switches of the criteria
    loads            \* the loadLookups invocations of this page, in call order

sessionVars == <<GC_TOKEN, GC_REGION, sessionStorage>>
browserVars == <<page, hash, authorizeUrl, mounted>>
reactVars == <<step, me, loadingLookups, lookups, splash, criteria>>
appVars == <<browserVars, reactVars, loads>>

vars == <<sessionVars, network, call, walks, appVars>>

-----------------------------------------------------------------------------
(* JavaScript values *)

undefined == "<undefined>"
null == "<null>"

\* ToBoolean of a string-or-absent value: "", undefined and null are falsy.
Truthy(v) == v \notin {undefined, null, ""}

\* a || b
Or(a, b) == IF Truthy(a) THEN a ELSE b

\* obj.f : the field's value, or undefined when the object has no such field.
Field(obj, f) == IF f \in DOMAIN obj THEN obj[f] ELSE undefined

Throw(msg) == [ok |-> FALSE, error |-> msg]
Return(v) == [ok |-> TRUE, value |-> v]

\* The JSON literal null, and apiFetch's null for a 204: an object-kinded
\* value that has no fields and is falsy.
JsonNull == [isNull |-> TRUE]
IsNullData(d) == "isNull" \in DOMAIN d

Digit(d) ==
    CASE d = 0 -> "0" [] d = 1 -> "1" [] d = 2 -> "2" [] d = 3 -> "3"
      [] d = 4 -> "4" [] d = 5 -> "5" [] d = 6 -> "6" [] d = 7 -> "7"
      [] d = 8 -> "8" [] d = 9 -> "9"

\* String(n) for a natural number: its decimal digits.
RECURSIVE String(_)
String(n) == IF n < 10 THEN Digit(n) ELSE String(n \div 10) \o Digit(n % 10)

-----------------------------------------------------------------------------
(* Session store, app.js:17-29 *)

Session == [GC_TOKEN |-> GC_TOKEN, GC_REGION |-> GC_REGION,
            sessionStorage |-> sessionStorage]

getItem(store, key) == IF key \in DOMAIN store THEN store[key] ELSE null

setItem(store, key, value) ==
    [k \in DOMAIN store \cup {key} |-> IF k = key THEN value ELSE store[k]]

removeItem(store, key) == [k \in DOMAIN store \ {key} |-> store[k]]

\* let GC_TOKEN = sessionStorage.getItem("gc_token") || "";  (and GC_REGION)
LoadSession(store) ==
    [GC_TOKEN |-> Or(getItem(store, "gc_token"), ""),
     GC_REGION |-> Or(getItem(store, "gc_region"), ""),
     sessionStorage |-> store]

\* setToken writing the key unconditionally.
setToken_alwaysStores(s, token) ==
    [s EXCEPT !.GC_TOKEN = Or(token, ""),
              !.sessionStorage = setItem(s.sessionStorage, "gc_token", Or(token, ""))]

setToken(s, token) ==
    [s EXCEPT !.GC_TOKEN = Or(token, ""),
              !.sessionStorage =
                  IF Truthy(token) THEN setItem(s.sessionStorage, "gc_token", token)
                  ELSE removeItem(s.sessionStorage, "gc_token")]

setRegion(s, region) ==
    [s EXCEPT !.GC_REGION = Or(region, ""),
              !.sessionStorage =
                  IF Truthy(region) THEN setItem(s.sessionStorage, "gc_region", region)
                  ELSE removeItem(s.sessionStorage, "gc_region")]

-----------------------------------------------------------------------------
(* HTTP request layer, app.js:31-63 *)

apiBase(s) ==
    IF ~Truthy(s.GC_REGION) THEN Throw("Region not set")
    ELSE Return("https://api." \o s.GC_REGION)

\* URLSearchParams.toString() of a list of <<key, value>> string pairs.
RECURSIVE QueryString(_)
QueryString(pairs) ==
    IF pairs = <<>> THEN ""
    ELSE LET p == pairs[1]
             rest == QueryString(Tail(pairs))
         IN p[1] \o "=" \o p[2] \o (IF rest = "" THEN "" ELSE "&" \o rest)

\* buildUrl(path, query) with query already flattened to string pairs.
buildUrl(s, path, query) ==
    LET qs == QueryString(query)
        base == apiBase(s)
    IN IF ~base.ok THEN base
       ELSE Return(base.value \o path \o (IF qs # "" THEN "?" \o qs ELSE ""))

\* apiFetch without its token check.
apiFetchCall_noTokenCheck(s, path) ==
    LET url == buildUrl(s, path, <<>>)
    IN IF ~url.ok THEN url
       ELSE Return([url |-> url.value,
                    authorization |-> "Bearer " \o s.GC_TOKEN,
                    token |-> s.GC_TOKEN, region |-> s.GC_REGION])

\* apiFetch up to its await: the token check, buildUrl(path), then fetch().
\* A fetch is described by the url and the Authorization header it carries.
apiFetchCall(s, path) ==
    IF ~Truthy(s.GC_TOKEN) THEN Throw("Not authenticated")
    ELSE LET url == buildUrl(s, path, <<>>)
         IN IF ~url.ok THEN url
            ELSE Return([url |-> url.value,
                         authorization |-> "Bearer " \o s.GC_TOKEN,
                         token |-> s.GC_TOKEN, region |-> s.GC_REGION])

\* A settled fetch: the transport failed (fetch rejects), or an HTTP response
\* arrived with a status, a status text, a body text and the body parsed as JSON.
NetworkFailure == [kind |-> "reject", error |-> "TypeError: Failed to fetch"]
Http(status, statusText, text, json) ==
    [kind |-> "http", status |-> status, statusText |-> statusText,
     text |-> text, json |-> json]

ResOk(res) == res.status >= 200 /\ res.status <= 299

\* apiFetch after its await.
apiFetchSettle(path, res) ==
    IF res.kind = "reject" THEN Throw(res.error)
    ELSE IF ~ResOk(res)
         THEN Throw("API " \o path \o " failed: " \o String(res.status) \o " "
                    \o res.statusText \o " " \o res.text)
    ELSE IF res.status = 204 THEN Return(JsonNull)
    ELSE Return(res.json)

-----------------------------------------------------------------------------
(* Pagination walker, app.js:65-78 *)

\* A caller's params object: a list of <<key, value>> in insertion order, the
\* value a number, a string or an array of strings.
Num(n) == [num |-> n]
Str(t) == [str |-> t]
Arr(a) == [arr |-> a]

HasKey(params, key) == \E k \in 1..Len(params) : params[k][1] = key
Lookup(params, key) == params[CHOOSE k \in 1..Len(params) : params[k][1] = key][2]

\* ToBoolean of a params value.
ParamTruthy(v) ==
    IF "num" \in DOMAIN v THEN v.num # 0
    ELSE IF "str" \in DOMAIN v THEN v.str # ""
    ELSE TRUE

\* { ...params, key: value }: an existing key keeps its place and takes the
\* new value, a new key goes last.
Spread(params, key, value) ==
    IF HasKey(params, key)
    THEN [k \in 1..Len(params) |->
             IF params[k][1] = key THEN <<key, value>> ELSE params[k]]
    ELSE Append(params, <<key, value>>)

\* Array.prototype.join(",") as URLSearchParams serialises it: the comma of
\* the joined string is percent-encoded.
RECURSIVE JoinComma(_)
JoinComma(a) ==
    IF a = <<>> THEN ""
    ELSE IF Len(a) = 1 THEN a[1]
    ELSE a[1] \o "%2C" \o JoinComma(Tail(a))

\* The string URLSearchParams(record) stores for a value.
ParamString(v) ==
    IF "num" \in DOMAIN v THEN String(v.num)
    ELSE IF "str" \in DOMAIN v THEN v.str
    ELSE JoinComma(v.arr)

\* new URLSearchParams({...params, pageNumber: String(pageNumber),
\*                      pageSize: String(pageSize)})
PageQuery(params, pageNumber, pageSize) ==
    LET merged == Spread(Spread(params, "pageNumber", Str(String(pageNumber))),
                         "pageSize", Str(String(pageSize)))
    IN [k \in 1..Len(merged) |-> <<merged[k][1], ParamString(merged[k][2])>>]

\* The page's entities with the body itself taken as the entity when it has
\* no list.
PageEntities_bodyAsEntity(data) ==
    IF IsNullData(data) THEN <<>>
    ELSE IF "entities" \in DOMAIN data THEN data.entities
    ELSE IF "items" \in DOMAIN data THEN data.items
    ELSE <<data>>

\* (data && (data.entities || data.items)) || []   -- an array is truthy,
\* also when it is empty.
PageEntities(data) ==
    IF IsNullData(data) THEN <<>>
    ELSE IF "entities" \in DOMAIN data THEN data.entities
    ELSE IF "items" \in DOMAIN data THEN data.items
    ELSE <<>>

\* !data || !data.nextUri
LastPage(data) == IsNullData(data) \/ ~Truthy(Field(data, "nextUri"))

\* The activation record of one getAllPages call.  requested lists the page
\* numbers of the fetches the loop has issued, received the bodies it got.
NewWalk(path, params, maxPages) ==
    [path |-> path, params |-> params, maxPages |-> maxPages,
     pageNumber |-> IF HasKey(params, "pageNumber") /\ ParamTruthy(Lookup(params, "pageNumber"))
                    THEN Lookup(params, "pageNumber").num ELSE 1,
     pageSize |-> IF HasKey(params, "pageSize") /\ ParamTruthy(Lookup(params, "pageSize"))
                  THEN Lookup(params, "pageSize").num ELSE 100,
     i |-> 0, out |-> <<>>, status |-> "running", error |-> "",
     requested |-> <<>>, received |-> <<>>]

\* The loop head with the bound test off by one.
WalkLoop_offByOne(s, w) ==
    IF w.i <= w.maxPages
    THEN LET path == w.path \o "?" \o QueryString(PageQuery(w.params, w.pageNumber, w.pageSize))
             f == apiFetchCall(s, path)
             asked == [w EXCEPT !.requested = Append(@, w.pageNumber)]
         IN IF f.ok
            THEN [walk |-> [asked EXCEPT !.status = "awaiting"],
                  fetches |-> {[path |-> path] @@ f.value}]
            ELSE [walk |-> [w EXCEPT !.status = "threw", !.error = f.error],
                  fetches |-> {}]
    ELSE [walk |-> [w EXCEPT !.status = "returned"], fetches |-> {}]

\* The head of the for loop: with i < maxPages call apiFetch and suspend on
\* it (or fail if it throws), otherwise return out.  The result is the walk
\* and the fetches issued (none or one).
WalkLoop(s, w) ==
    IF w.i < w.maxPages
    THEN LET path == w.path \o "?" \o QueryString(PageQuery(w.params, w.pageNumber, w.pageSize))
             f == apiFetchCall(s, path)
             asked == [w EXCEPT !.requested = Append(@, w.pageNumber)]
         IN IF f.ok
            THEN [walk |-> [asked EXCEPT !.status = "awaiting"],
                  fetches |-> {[path |-> path] @@ f.value}]
            ELSE [walk |-> [w EXCEPT !.status = "threw", !.error = f.error],
                  fetches |-> {}]
    ELSE [walk |-> [w EXCEPT !.status = "returned"], fetches |-> {}]

\* The fetches of a walk carry the walk's id: their settling resumes it.
Tag(id, fetches) == {[task |-> <<"walk", id>>] @@ f : f \in fetches}

\* getAllPages(path, params, maxPages) up to its first await.
getAllPages(s, path, params, maxPages) == WalkLoop(s, NewWalk(path, params, maxPages))

\* The loop body catching a failed page and returning what it has so far.
WalkResume_returnsPartial(s, w, path, res) ==
    LET r == apiFetchSettle(path, res)
    IN IF ~r.ok
       THEN [walk |-> [w EXCEPT !.status = "returned"], fetches |-> {}]
       ELSE LET data == r.value
                got == [w EXCEPT !.out = @ \o PageEntities(data),
                                 !.received = Append(@, data)]
            IN IF LastPage(data)
               THEN [walk |-> [got EXCEPT !.status = "returned"], fetches |-> {}]
               ELSE WalkLoop(s, [got EXCEPT !.pageNumber = @ + 1, !.i = @ + 1])

\* The loop body advancing pageNumber by two.
WalkResume_skipsPage(s, w, path, res) ==
    LET r == apiFetchSettle(path, res)
    IN IF ~r.ok
       THEN [walk |-> [w EXCEPT !.status = "threw", !.error = r.error], fetches |-> {}]
       ELSE LET data == r.value
                got == [w EXCEPT !.out = @ \o PageEntities(data),
                                 !.received = Append(@, data)]
            IN IF LastPage(data)
               THEN [walk |-> [got EXCEPT !.status = "returned"], fetches |-> {}]
               ELSE WalkLoop(s, [got EXCEPT !.pageNumber = @ + 2, !.i = @ + 1])

\* The loop body after the await of apiFetch settles with res.
WalkResume(s, w, path, res) ==
    LET r == apiFetchSettle(path, res)
    IN IF ~r.ok
       THEN [walk |-> [w EXCEPT !.status = "threw", !.error = r.error], fetches |-> {}]
       ELSE LET data == r.value
                got == [w EXCEPT !.out = @ \o PageEntities(data),
                                 !.received = Append(@, data)]
            IN IF LastPage(data)
               THEN [walk |-> [got EXCEPT !.status = "returned"], fetches |-> {}]
               ELSE WalkLoop(s, [got EXCEPT !.pageNumber = @ + 1, !.i = @ + 1])

-----------------------------------------------------------------------------
(* Lookups, app.js:110-141 *)

LookupNames ==
    <<"users", "queues", "skills", "languages",
      "workTeams", "wrapUps", "topics", "categories">>

Resources == {LookupNames[k] : k \in 1..Len(LookupNames)}

LookupPath(r) ==
    CASE r = "users" -> "/api/v2/users"
      [] r = "queues" -> "/api/v2/routing/queues"
      [] r = "skills" -> "/api/v2/routing/skills"
      [] r = "languages" -> "/api/v2/routing/languages"
      [] r = "workTeams" -> "/api/v2/teams"
      [] r = "wrapUps" -> "/api/v2/routing/wrapupcodes"
      [] r = "topics" -> "/api/v2/speechandtextanalytics/topics"
      [] r = "categories" -> "/api/v2/speechandtextanalytics/categories"

LookupParams(r) ==
    CASE r = "users" -> <<(<<"state", Str("active")>>), (<<"pageSize", Num(100)>>)>>
      [] r = "queues" -> <<(<<"pageSize", Num(100)>>)>>
      [] OTHER -> <<(<<"pageSize", Num(200)>>)>>

\* The label each fetcher gives an entity.
LookupLabel(r, e) ==
    CASE r = "users" -> Or(Or(Field(e, "name"), Field(e, "username")), Field(e, "id"))
      [] r = "languages" -> Or(Or(Field(e, "name"), Field(e, "code")), Field(e, "id"))
      [] OTHER -> Field(e, "name")

\* entities.map(x => ({ id: x.id, label: ... }))
LookupOptions(r, entities) ==
    [k \in 1..Len(entities) |->
        [id |-> Field(entities[k], "id"), label |-> LookupLabel(r, entities[k])]]

-----------------------------------------------------------------------------
(* The server: what a fetch can settle with *)

E1 == [id |-> "e1", name |-> "Alpha"]
E2 == [id |-> "e2"]
E3 == [id |-> "e3", name |-> "", username |-> "u3", code |-> "c3"]
E4 == [id |-> "e4", name |-> "Delta"]

\* The JSON bodies of a page: each of entities, items and nextUri present or
\* not, entities possibly an empty list.
PageBodies ==
    {[f \in fs |-> b[f]] :
        fs \in SUBSET {"entities", "items", "nextUri"},
        b \in {[entities |-> es, items |-> <<E4>>, nextUri |-> "/next"] :
                  es \in {<<>>, <<E1, E2>>, <<E3>>}}}

Unauthorized == Http(401, "Unauthorized", "{}", JsonNull)
ServerError == Http(500, "Internal Server Error", "", JsonNull)
NoContent == Http(204, "No Content", "", JsonNull)
OkJson(body) == Http(200, "OK", "", body)

Failures == {NetworkFailure, Unauthorized, ServerError}

PageResponses ==
    Failures \cup {NoContent, OkJson(JsonNull)} \cup {OkJson(b) : b \in PageBodies}

-----------------------------------------------------------------------------
(* Bounds and inputs *)

MaxPages == 3

Tokens == {"tokA", "tokB"}
Regions == {"mypurecloud.com", "mypurecloud.ie"}

\* The arguments a caller can hand to setToken and setRegion.
TokenArgs == Tokens \cup {"", undefined, null}
RegionArgs == Regions \cup {"", undefined, null}

IdleCall == [state |-> "idle", path |-> "", result |-> Return(JsonNull)]

EmptyLookups == [r \in Resources |-> <<>>]

\* No authorize URL has been built yet.
NoUrl == [base |-> "", query |-> <<>>]

NoSplash == [mounted |-> FALSE, clientId |-> "", region |-> ""]

\* useState({...}) of app.js:389-413: the list fields and the switches that
\* go with them.  (The scalar fields -- dates, media type, direction,
\* durations, sentiment -- are left out.)
DefaultCriteria ==
    [queues |-> <<>>, users |-> <<>>, workTeams |-> <<>>, wrapUpCodes |-> <<>>,
     skills |-> <<>>, languages |-> <<>>,
     useAdvanced |-> FALSE,
     useTopics |-> FALSE, includeTopics |-> <<>>, excludeTopics |-> <<>>,
     useCategories |-> FALSE, includeCategories |-> <<>>, excludeCategories |-> <<>>]

\* The React state of a page that has just loaded: App's useState initial
\* values, nothing mounted.
InitReact ==
    /\ step = 1
    /\ me = JsonNull
    /\ loadingLookups = FALSE
    /\ lookups = EmptyLookups
    /\ splash = NoSplash
    /\ criteria = DefaultCriteria
    /\ loads = <<>>

\* A fresh tab showing the app with no fragment.
InitPage ==
    /\ page = "app"
    /\ hash = <<>>
    /\ authorizeUrl = NoUrl
    /\ mounted = FALSE
    /\ InitReact

-----------------------------------------------------------------------------
(* Authorization redirect helpers, app.js:80-107 *)

\* URLSearchParams.get(key): the first value of the key, or null.
Get(pairs, key) ==
    IF \E k \in 1..Len(pairs) : pairs[k][1] = key
    THEN pairs[CHOOSE k \in 1..Len(pairs) :
                   /\ pairs[k][1] = key
                   /\ \A j \in 1..(k - 1) : pairs[j][1] # key][2]
    ELSE null

\* Array.prototype.join(sep) of a non-empty list of strings.
RECURSIVE Join(_, _)
Join(segs, sep) ==
    IF Len(segs) = 1 THEN segs[1] ELSE segs[1] \o sep \o Join(Tail(segs), sep)

\* The pieces the strings of the model are made of, and the lists of up to
\* three of them: String.prototype.split("|") is the inverse of Join on these.
Pieces == {"", "qpw", "x", "mypurecloud.com", "mypurecloud.ie"}
PieceLists == UNION {[1..n -> Pieces] : n \in 1..3}
Split(str) == CHOOSE segs \in PieceLists : Join(segs, "|") = str

\* str.startsWith("qpw|")
StartsWithQpw(str) == LET segs == Split(str) IN Len(segs) >= 2 /\ segs[1] = "qpw"

\* str.split("|")[1]
SecondPiece(str) == LET segs == Split(str) IN IF Len(segs) >= 2 THEN segs[2] ELSE undefined

\* Number(str) for the decimal strings of the model; anything else is NaN.
Numbers == {0, 3600}
NaN == [nan |-> TRUE]
Number(str) ==
    IF \E n \in Numbers : String(n) = str
    THEN Num(CHOOSE n \in Numbers : String(n) = str)
    ELSE NaN

\* parseAuthHash(location.hash): h is the fragment after its "#", read as
\* URLSearchParams reads it; <<>> is the empty fragment.
parseAuthHash(h) ==
    IF h = <<>> THEN JsonNull
    ELSE LET accessToken == Get(h, "access_token")
         IN IF ~Truthy(accessToken) THEN JsonNull
            ELSE [accessToken |-> accessToken,
                  tokenType |-> Get(h, "token_type"),
                  expiresIn |-> IF Truthy(Get(h, "expires_in"))
                                THEN Number(Get(h, "expires_in")) ELSE Num(0),
                  state |-> Or(Get(h, "state"), "")]

\* stripHash leaving the location as it is.
stripHash_keepsFragment(h) == h

\* stripHash(): history.replaceState drops the fragment.
stripHash(h) == <<>>

buildAuthorizeUrl(clientId, region, redirectUri, state) ==
    [base |-> "https://login." \o region \o "/oauth/authorize",
     query |-> <<(<<"response_type", "token">>), (<<"client_id", clientId>>),
                 (<<"redirect_uri", redirectUri>>), (<<"state", state>>)>>]

-----------------------------------------------------------------------------
(* URL-encoded text: URLSearchParams as buildUrl writes it (app.js:37-43)  *)
(* and as parseAuthHash reads it (app.js:83).  A text is a JavaScript      *)
(* string cut into tokens: each reserved character is a token of its own,  *)
(* a run of unreserved characters is one token, and in encoded text the    *)
(* two hex digits that follow a "%" are one token.                         *)

\* The string a text stands for.
RECURSIVE Concat(_)
Concat(text) == IF text = <<>> THEN "" ELSE text[1] \o Concat(Tail(text))

Reserved == {" ", "&", "=", "+", "%", ",", "|", "#", "?"}

HexOf(c) ==
    CASE c = "&" -> "26" [] c = "=" -> "3D" [] c = "+" -> "2B" [] c = "%" -> "25"
      [] c = "," -> "2C" [] c = "|" -> "7C" [] c = "#" -> "23" [] c = "?" -> "3F"

\* The serializer leaving every character as it is.
PercentEncode_raw(c) == <<c>>

\* The application/x-www-form-urlencoded serializer on one token: a space
\* becomes "+", any other reserved character its percent escape.
PercentEncode(c) ==
    IF c = " " THEN <<"+">>
    ELSE IF c \in Reserved THEN <<"%", HexOf(c)>>
    ELSE <<c>>

RECURSIVE Encode(_)
Encode(text) == IF text = <<>> THEN <<>> ELSE PercentEncode(text[1]) \o Encode(Tail(text))

\* URLSearchParams.prototype.toString() of a list of <<name, value>> texts.
RECURSIVE Serialize(_)
Serialize(pairs) ==
    IF pairs = <<>> THEN <<>>
    ELSE Encode(pairs[1][1]) \o <<"=">> \o Encode(pairs[1][2])
         \o (IF Len(pairs) > 1 THEN <<"&">> \o Serialize(Tail(pairs)) ELSE <<>>)

\* String.prototype.split(sep) on the tokens of a text.
RECURSIVE SplitText(_, _)
SplitText(text, sep) ==
    IF \A k \in 1..Len(text) : text[k] # sep THEN <<text>>
    ELSE LET k == CHOOSE k \in 1..Len(text) :
                      text[k] = sep /\ \A j \in 1..(k - 1) : text[j] # sep
         IN <<SubSeq(text, 1, k - 1)>> \o SplitText(SubSeq(text, k + 1, Len(text)), sep)

Escapes == {HexOf(c) : c \in Reserved \ {" "}}

\* The parser's decoding: "+" is a space, "%" followed by two hex digits is
\* the character they encode, anything else stands for itself.
RECURSIVE PercentDecode(_)
PercentDecode(text) ==
    IF text = <<>> THEN <<>>
    ELSE IF text[1] = "+" THEN <<" ">> \o PercentDecode(Tail(text))
    ELSE IF text[1] = "%" /\ Len(text) >= 2 /\ text[2] \in Escapes
    THEN <<CHOOSE c \in Reserved \ {" "} : HexOf(c) = text[2]>>
         \o PercentDecode(SubSeq(text, 3, Len(text)))
    ELSE <<text[1]>> \o PercentDecode(Tail(text))

\* One "name=value" sequence of the parser: cut at the first "=".
ParsePair(piece) ==
    IF \E k \in 1..Len(piece) : piece[k] = "="
    THEN LET k == CHOOSE k \in 1..Len(piece) :
                      piece[k] = "=" /\ \A j \in 1..(k - 1) : piece[j] # "="
         IN <<Concat(PercentDecode(SubSeq(piece, 1, k - 1))),
              Concat(PercentDecode(SubSeq(piece, k + 1, Len(piece))))>>
    ELSE <<Concat(PercentDecode(piece)), "">>

NonEmpty(piece) == piece # <<>>

\* new URLSearchParams(text): the <<name, value>> strings of the text, in
\* order; empty sequences between "&" are skipped.
URLSearchParams(text) ==
    LET pieces == SelectSeq(SplitText(text, "&"), NonEmpty)
    IN [k \in 1..Len(pieces) |-> ParsePair(pieces[k])]

\* A query object's value that is undefined or null.
Nil(v) == [nil |-> v]

\* String(val) as a text, for a number or a string.
TextOf(v) == IF "num" \in DOMAIN v THEN <<String(v.num)>> ELSE v.str

RECURSIVE AppendAll(_, _)
AppendAll(key, vals) ==
    IF vals = <<>> THEN <<>> ELSE <<(<<key, vals[1]>>)>> \o AppendAll(key, Tail(vals))

\* The q.append calls of buildUrl (app.js:38-42) for a query object given as
\* its entries: undefined and null are skipped, an array appends one pair per
\* element, anything else one pair.
RECURSIVE Entries(_)
Entries(query) ==
    IF query = <<>> THEN <<>>
    ELSE LET k == query[1][1]
             v == query[1][2]
         IN (IF "nil" \in DOMAIN v THEN <<>>
             ELSE IF "arr" \in DOMAIN v THEN AppendAll(k, v.arr)
             ELSE <<(<<k, TextOf(v)>>)>>)
            \o Entries(Tail(query))

\* buildUrl(path, query) for a query object: the URL as a text.
buildUrlText(s, path, query) ==
    LET qs == Serialize(Entries(query))
        base == apiBase(s)
    IN IF ~base.ok THEN base
       ELSE Return(<<base.value, path>> \o (IF qs # <<>> THEN <<"?">> \o qs ELSE <<>>))

\* The query string of a URL: what follows its first "?".
UrlQuery(url) ==
    IF \E k \in 1..Len(url) : url[k] = "?"
    THEN LET k == CHOOSE k \in 1..Len(url) :
                      url[k] = "?" /\ \A j \in 1..(k - 1) : url[j] # "?"
         IN SubSeq(url, k + 1, Len(url))
    ELSE <<>>

\* parseAuthHash reading the fragment with its "#".
parseAuthHashText_keepsHashSign(h) ==
    IF Len(Concat(h)) < 2 THEN JsonNull
    ELSE parseAuthHash(URLSearchParams(h))

\* parseAuthHash(hash) for location.hash given as a text (app.js:80-92).
parseAuthHashText(h) ==
    IF Len(Concat(h)) < 2 THEN JsonNull
    ELSE LET body == IF h[1] = "#" THEN Tail(h) ELSE h
         IN parseAuthHash(URLSearchParams(body))

-----------------------------------------------------------------------------
(* The app's server and user *)

\* What the lookup endpoints hold: users has two pages, the others one.
CataloguePages(r) == IF r = "users" THEN 2 ELSE 1

CatalogueEntity(r, n) ==
    CASE r = "users" /\ n = 1 -> [id |-> "users-1", name |-> "Ann", username |-> "ann"]
      [] r = "users" -> [id |-> "users-" \o String(n), username |-> "bob"]
      [] r = "languages" -> [id |-> "languages-" \o String(n), code |-> "en"]
      [] OTHER -> [id |-> r \o "-" \o String(n), name |-> "Name of " \o r]

CataloguePage(r, n) ==
    IF n < CataloguePages(r)
    THEN [entities |-> <<CatalogueEntity(r, n)>>, nextUri |-> LookupPath(r) \o "?next"]
    ELSE IF n = CataloguePages(r) THEN [entities |-> <<CatalogueEntity(r, n)>>]
    ELSE [entities |-> <<>>]

Profile == [id |-> "users-1", name |-> "Ann"]

MeResponses == Failures \cup {OkJson(Profile)}

\* The answers to the fetch of a lookup walk.
LookupResponses(f) ==
    Failures \cup {OkJson(CataloguePage(f.task[2][2], walks[f.task[2]].pageNumber))}

ClientIds == {"my-client"}

RedirectUri == "https://app.example/index.html"

\* The fragments a page can be loaded with: none, the provider's answer to an
\* authorize request, an answer without a state or with another state, an
\* error answer.
Fragments ==
    {<<>>}
    \cup {<<(<<"access_token", t>>), (<<"token_type", "bearer">>),
            (<<"expires_in", "3600">>), (<<"state", "qpw|" \o r>>)>> :
             t \in Tokens, r \in Regions}
    \cup {<<(<<"access_token", t>>), (<<"token_type", "bearer">>)>> : t \in Tokens}
    \cup {<<(<<"access_token", t>>), (<<"state", "x">>)>> : t \in Tokens}
    \cup {<<(<<"error", "access_denied">>), (<<"state", "qpw|" \o r>>)>> : r \in Regions}

-----------------------------------------------------------------------------
(* Lookup aggregation, app.js:415-426 *)

DefaultMaxPages == 50

WalkIds(i) == {<<i, r>> : r \in Resources}

\* The walks that are still referenced: those of a direct caller, those a
\* pending loadLookups awaits, and those suspended on a fetch.  The result of
\* any other walk can no longer be observed.
Live(ws, ls) ==
    LET keep == {id \in DOMAIN ws :
                    \/ id[1] \notin DOMAIN ls
                    \/ ls[id[1]].status = "pending"
                    \/ ws[id].status = "awaiting"}
    IN [id \in keep |-> ws[id]]

\* The value Promise.all resolves with, once the fetchers have mapped their
\* entities: the eight option lists.
Committed(i, ws) == [r \in Resources |-> LookupOptions(r, ws[<<i, r>>].out)]

\* The aggregate keeping what the fulfilled walks returned when one rejects.
PromiseAll_keepsFulfilled(i, ws, st) ==
    IF i \notin DOMAIN st.loads \/ st.loads[i].status # "pending" THEN st
    ELSE IF \E id \in WalkIds(i) : ws[id].status = "threw"
    THEN [loads |-> [st.loads EXCEPT ![i].status = "reset"],
          lookups |-> [r \in Resources |->
                         IF ws[<<i, r>>].status = "returned"
                         THEN LookupOptions(r, ws[<<i, r>>].out) ELSE <<>>],
          loadingLookups |-> FALSE]
    ELSE IF \A id \in WalkIds(i) : ws[id].status = "returned"
    THEN [loads |-> [st.loads EXCEPT ![i] = [status |-> "committed",
                                            result |-> Committed(i, ws)]],
          lookups |-> Committed(i, ws),
          loadingLookups |-> FALSE]
    ELSE st

\* The aggregate committing as soon as no walk is on its first page any more,
\* whether or not a walk is still suspended on a later page.
PromiseAll_commitsEarly(i, ws, st) ==
    IF i \notin DOMAIN st.loads \/ st.loads[i].status # "pending" THEN st
    ELSE IF \E id \in WalkIds(i) : ws[id].status = "threw"
    THEN [loads |-> [st.loads EXCEPT ![i].status = "reset"],
          lookups |-> EmptyLookups,
          loadingLookups |-> FALSE]
    ELSE IF \A id \in WalkIds(i) : ws[id].out # <<>>
    THEN [loads |-> [st.loads EXCEPT ![i] = [status |-> "committed",
                                            result |-> Committed(i, ws)]],
          lookups |-> Committed(i, ws),
          loadingLookups |-> FALSE]
    ELSE st

\* The continuation of await Promise.all([...]) in invocation i, given the
\* walks ws: with a walk rejected the catch block, with all eight fulfilled
\* the commit, and the finally block after either.  st holds loads, lookups
\* and loadingLookups.
PromiseAll(i, ws, st) ==
    IF i \notin DOMAIN st.loads \/ st.loads[i].status # "pending" THEN st
    ELSE IF \E id \in WalkIds(i) : ws[id].status = "threw"
    THEN [loads |-> [st.loads EXCEPT ![i].status = "reset"],
          lookups |-> EmptyLookups,
          loadingLookups |-> FALSE]
    ELSE IF \A id \in WalkIds(i) : ws[id].status = "returned"
    THEN [loads |-> [st.loads EXCEPT ![i] = [status |-> "committed",
                                            result |-> Committed(i, ws)]],
          lookups |-> Committed(i, ws),
          loadingLookups |-> FALSE]
    ELSE st

\* loadLookups(): setLoadingLookups(true), the eight fetchers called in
\* order, each running to its first await, then the await of Promise.all.
loadLookups(s, st, ws, net) ==
    LET i == Len(st.loads) + 1
        go == [r \in Resources |-> getAllPages(s, LookupPath(r), LookupParams(r), DefaultMaxPages)]
        started == [id \in DOMAIN ws \cup WalkIds(i) |->
                       IF id[1] = i THEN go[id[2]].walk ELSE ws[id]]
        fetches == UNION {Tag(<<i, r>>, go[r].fetches) : r \in Resources}
        pending == [loads |-> Append(st.loads, [status |-> "pending"]),
                    lookups |-> st.lookups,
                    loadingLookups |-> TRUE]
        after == PromiseAll(i, started, pending)
    IN [st |-> after, walks |-> Live(started, after.loads), network |-> net \cup fetches]

-----------------------------------------------------------------------------
(* Session store and request layer driven by a caller *)

\* A fresh tab: nothing stored yet.
InitClient ==
    /\ GC_TOKEN = LoadSession(<<>>).GC_TOKEN
    /\ GC_REGION = LoadSession(<<>>).GC_REGION
    /\ sessionStorage = <<>>
    /\ network = {}
    /\ call = IdleCall
    /\ walks = <<>>
    /\ InitPage

SetSession(s) ==
    /\ GC_TOKEN' = s.GC_TOKEN
    /\ GC_REGION' = s.GC_REGION
    /\ sessionStorage' = s.sessionStorage

CallSetToken(token) ==
    /\ SetSession(setToken(Session, token))
    /\ UNCHANGED <<network, call, walks, appVars>>

CallSetRegion(region) ==
    /\ SetSession(setRegion(Session, region))
    /\ UNCHANGED <<network, call, walks, appVars>>

\* A caller invokes apiFetch(path) and awaits it.
CallApiFetch(path) ==
    /\ call.state # "awaiting"
    /\ LET f == apiFetchCall(Session, path)
       IN IF f.ok
          THEN /\ network' = network \cup {[task |-> <<"call">>, path |-> path] @@ f.value}
               /\ call' = [state |-> "awaiting", path |-> path, result |-> Return(JsonNull)]
          ELSE /\ network' = network
               /\ call' = [state |-> "threw", path |-> path, result |-> f]
    /\ UNCHANGED <<sessionVars, walks, appVars>>

\* The caller's fetch settles and apiFetch returns or throws.
SettleCall(f, res) ==
    /\ f \in network
    /\ f.task = <<"call">>
    /\ network' = network \ {f}
    /\ LET r == apiFetchSettle(f.path, res)
       IN call' = [state |-> IF r.ok THEN "returned" ELSE "threw",
                   path |-> f.path, result |-> r]
    /\ UNCHANGED <<sessionVars, walks, appVars>>

NextClient ==
    \/ \E token \in TokenArgs : CallSetToken(token)
    \/ \E region \in RegionArgs : CallSetRegion(region)
    \/ \E path \in {"/api/v2/users/me", "/api/v2/teams"} : CallApiFetch(path)
    \/ \E f \in network, res \in PageResponses : SettleCall(f, res)

SpecClient == InitClient /\ [][NextClient]_vars

-----------------------------------------------------------------------------
(* One fetcher driving one walk *)

InitWalk ==
    /\ \E token \in {"", "tokA"}, region \in {"", "mypurecloud.ie"} :
          LET s == setRegion(setToken(LoadSession(<<>>), token), region)
          IN /\ GC_TOKEN = s.GC_TOKEN
             /\ GC_REGION = s.GC_REGION
             /\ sessionStorage = s.sessionStorage
    /\ network = {}
    /\ call = IdleCall
    /\ walks = <<>>
    /\ InitPage

\* A fetcher calls getAllPages for resource r; start is a pageNumber the
\* caller puts in params (0: none), maxPages the third argument.
StartWalk(r, start, maxPages) ==
    /\ walks = <<>>
    /\ LET params == IF start = 0 THEN LookupParams(r)
                     ELSE Append(LookupParams(r), <<"pageNumber", Num(start)>>)
           go == getAllPages(Session, LookupPath(r), params, maxPages)
           id == <<0, r>>
       IN /\ walks' = (id :> go.walk)
          /\ network' = network \cup Tag(id, go.fetches)
    /\ UNCHANGED <<sessionVars, call, appVars>>

\* The arrays a caller may pass as the expand parameter of /api/v2/users.
ExpandLists == {<<"presence">>, <<"presence", "skills">>}

\* A caller calls getAllPages("/api/v2/users", { expand: [...], pageSize: 100 }, maxPages).
StartWalkExpand(expand, maxPages) ==
    /\ walks = <<>>
    /\ LET params == <<(<<"expand", Arr(expand)>>), (<<"pageSize", Num(100)>>)>>
           go == getAllPages(Session, LookupPath("users"), params, maxPages)
           id == <<0, "users">>
       IN /\ walks' = (id :> go.walk)
          /\ network' = network \cup Tag(id, go.fetches)
    /\ UNCHANGED <<sessionVars, call, appVars>>

\* The settling of a lookup page dropping the token when the page failed.
SettleWalk_signsOut(f, res) ==
    /\ f \in network
    /\ f.task[1] = "walk"
    /\ LET id == f.task[2]
           go == WalkResume(Session, walks[id], f.path, res)
           ws == [walks EXCEPT ![id] = go.walk]
           st == PromiseAll(id[1], ws, [loads |-> loads, lookups |-> lookups,
                                        loadingLookups |-> loadingLookups])
       IN /\ walks' = Live(ws, st.loads)
          /\ network' = (network \ {f}) \cup Tag(id, go.fetches)
          /\ loads' = st.loads
          /\ lookups' = st.lookups
          /\ loadingLookups' = st.loadingLookups
          /\ IF go.walk.status = "threw"
             THEN SetSession(setToken(Session, ""))
             ELSE UNCHANGED sessionVars
    /\ UNCHANGED <<call, browserVars, step, me, splash, criteria>>

\* The fetch a walk awaits settles with res and the loop goes on; if the
\* walk ends, the loadLookups that awaits it (if any) may go on too.
SettleWalk(f, res) ==
    /\ f \in network
    /\ f.task[1] = "walk"
    /\ LET id == f.task[2]
           go == WalkResume(Session, walks[id], f.path, res)
           ws == [walks EXCEPT ![id] = go.walk]
           st == PromiseAll(id[1], ws, [loads |-> loads, lookups |-> lookups,
                                        loadingLookups |-> loadingLookups])
       IN /\ walks' = Live(ws, st.loads)
          /\ network' = (network \ {f}) \cup Tag(id, go.fetches)
          /\ loads' = st.loads
          /\ lookups' = st.lookups
          /\ loadingLookups' = st.loadingLookups
    /\ UNCHANGED <<sessionVars, call, browserVars, step, me, splash, criteria>>

NextWalk ==
    \/ \E r \in Resources, start \in {0, 2}, maxPages \in 0..MaxPages :
          StartWalk(r, start, maxPages)
    \/ \E expand \in ExpandLists, maxPages \in 1..MaxPages :
          StartWalkExpand(expand, maxPages)
    \/ \E f \in network, res \in PageResponses : SettleWalk(f, res)

SpecWalk == InitWalk /\ [][NextWalk]_vars

-----------------------------------------------------------------------------
(* The app: page loads, SplashLogin, App *)

\* SplashLogin's mount effect, app.js:245-266, given the session s and the
\* fragment h: the session, the fragment and the region field after it, and
\* the fetches it issued.
SplashEffect(s, h, region) ==
    LET parsed == parseAuthHash(h)
    IN IF IsNullData(parsed)
       THEN [session |-> s, hash |-> h, region |-> region, fetches |-> {}]
       ELSE LET s1 == setToken(s, parsed.accessToken)
                r == IF Truthy(parsed.state) /\ StartsWithQpw(parsed.state)
                     THEN SecondPiece(parsed.state) ELSE undefined
                s2 == IF Truthy(r) THEN setRegion(s1, r) ELSE s1
                probe == apiFetchCall(s2, "/api/v2/users/me")
            IN [session |-> s2,
                hash |-> stripHash(h),
                region |-> IF Truthy(r) THEN r ELSE region,
                fetches |-> IF probe.ok
                            THEN {[task |-> <<"me", "splash">>, path |-> "/api/v2/users/me"]
                                  @@ probe.value}
                            ELSE {}]

\* App's mount effect, app.js:428-442.
AppEffect(s, profile) ==
    IF Truthy(s.GC_TOKEN) /\ Truthy(s.GC_REGION) /\ IsNullData(profile)
    THEN LET probe == apiFetchCall(s, "/api/v2/users/me")
         IN IF probe.ok
            THEN {[task |-> <<"me", "app">>, path |-> "/api/v2/users/me"] @@ probe.value}
            ELSE {}
    ELSE {}

\* SplashLogin as it mounts: useState("") and useState(GC_REGION || "mypurecloud.com").
MountSplash(s) ==
    [mounted |-> TRUE, clientId |-> "", region |-> Or(s.GC_REGION, "mypurecloud.com")]

\* The browser loads the app's page with the fragment h: the module is
\* evaluated (app.js:17-18) and React starts from its initial state.  What
\* the previous page had in flight is gone.
Navigate(h) ==
    /\ page' = "app"
    /\ hash' = h
    /\ mounted' = FALSE
    /\ SetSession(LoadSession(sessionStorage))
    /\ step' = 1
    /\ me' = JsonNull
    /\ loadingLookups' = FALSE
    /\ lookups' = EmptyLookups
    /\ splash' = NoSplash
    /\ criteria' = DefaultCriteria
    /\ loads' = <<>>
    /\ network' = {}
    /\ walks' = <<>>
    /\ UNCHANGED <<authorizeUrl, call>>

\* root.render(<App />): step is 1, so SplashLogin mounts; its effect runs,
\* then App's.
Mount ==
    /\ page = "app"
    /\ ~mounted
    /\ mounted' = TRUE
    /\ LET initial == MountSplash(Session)
           child == SplashEffect(Session, hash, initial.region)
           parent == AppEffect(child.session, me)
       IN /\ SetSession(child.session)
          /\ hash' = child.hash
          /\ splash' = [initial EXCEPT !.region = child.region]
          /\ network' = network \cup child.fetches \cup parent
    /\ UNCHANGED <<page, authorizeUrl, step, me, loadingLookups, lookups, criteria,
                   loads, call, walks>>

\* setStep(n) and the render it causes: going to 1 mounts SplashLogin and
\* runs its effect, going to 2 unmounts it.
SetStep(n) ==
    /\ page = "app"
    /\ mounted
    /\ step' = n
    /\ IF n = step
       THEN UNCHANGED <<sessionVars, hash, splash, network>>
       ELSE IF n = 1
       THEN LET initial == MountSplash(Session)
                child == SplashEffect(Session, hash, initial.region)
            IN /\ SetSession(child.session)
               /\ hash' = child.hash
               /\ splash' = [initial EXCEPT !.region = child.region]
               /\ network' = network \cup child.fetches
       ELSE /\ splash' = NoSplash
            /\ UNCHANGED <<sessionVars, hash, network>>
    /\ UNCHANGED <<page, authorizeUrl, mounted, me, loadingLookups, lookups, criteria,
                   loads, call, walks>>

\* A click on a button of the Stepper, app.js:153-156.
StepperClick(n) == SetStep(n)

\* A click on Back, app.js:464.
Back ==
    /\ step = 2
    /\ SetStep(1)

\* The Client ID input and the region select of SplashLogin.
TypeClientId(clientId) ==
    /\ page = "app"
    /\ splash.mounted
    /\ splash' = [splash EXCEPT !.clientId = clientId]
    /\ UNCHANGED <<sessionVars, network, call, walks, browserVars, step, me,
                   loadingLookups, lookups, criteria, loads>>

SelectRegion(region) ==
    /\ page = "app"
    /\ splash.mounted
    /\ splash' = [splash EXCEPT !.region = region]
    /\ UNCHANGED <<sessionVars, network, call, walks, browserVars, step, me,
                   loadingLookups, lookups, criteria, loads>>

\* A click on Sign in, app.js:281-291: the region is persisted and the tab
\* leaves for the provider's authorize page.
SignIn ==
    /\ page = "app"
    /\ splash.mounted
    /\ Truthy(splash.clientId)
    /\ SetSession(setRegion(Session, splash.region))
    /\ authorizeUrl' = buildAuthorizeUrl(splash.clientId, splash.region, RedirectUri,
                                         "qpw|" \o splash.region)
    /\ page' = "login"
    /\ hash' = <<>>
    /\ mounted' = FALSE
    /\ step' = 1
    /\ me' = JsonNull
    /\ loadingLookups' = FALSE
    /\ lookups' = EmptyLookups
    /\ splash' = NoSplash
    /\ criteria' = DefaultCriteria
    /\ loads' = <<>>
    /\ network' = {}
    /\ walks' = <<>>
    /\ UNCHANGED call

\* What follows a successful /me: setMe(me), setStep(2), loadLookups().
\* (onLogin of app.js:449 and app.js:434-436 are the same three calls.)
onLogin(profile, net) ==
    LET st == [loads |-> loads, lookups |-> lookups, loadingLookups |-> loadingLookups]
        go == loadLookups(Session, st, walks, net)
    IN /\ me' = profile
       /\ step' = 2
       /\ splash' = NoSplash
       /\ criteria' = criteria
       /\ loads' = go.st.loads
       /\ lookups' = go.st.lookups
       /\ loadingLookups' = go.st.loadingLookups
       /\ walks' = go.walks
       /\ network' = go.network

\* The probe's catch block signing the user out.
SettleMe_clearsOnFailure(f, res) ==
    /\ f \in network
    /\ f.task[1] = "me"
    /\ LET r == apiFetchSettle(f.path, res)
       IN IF r.ok
          THEN /\ onLogin(r.value, network \ {f})
               /\ UNCHANGED sessionVars
          ELSE /\ network' = network \ {f}
               /\ SetSession(setToken(Session, ""))
               /\ UNCHANGED <<reactVars, loads, walks>>
    /\ UNCHANGED <<browserVars, call>>

\* The /me probe of SplashLogin or of App settles: on success the login goes
\* on, on failure the catch block logs a warning and nothing else.
SettleMe(f, res) ==
    /\ f \in network
    /\ f.task[1] = "me"
    /\ LET r == apiFetchSettle(f.path, res)
       IN IF r.ok
          THEN onLogin(r.value, network \ {f})
          ELSE /\ network' = network \ {f}
               /\ UNCHANGED <<reactVars, loads, walks>>
    /\ UNCHANGED <<sessionVars, browserVars, call>>

\* The position of a fetcher in the list handed to Promise.all.
Position(r) == CHOOSE k \in 1..Len(LookupNames) : LookupNames[k] = r

LookupFetches == {f \in network : f.task[1] = "walk"}

\* Spec lets the lookup fetches of a page settle in one order only: by
\* loadLookups invocation, then by the fetcher's position.  (SpecLoad below
\* lets them settle in any order.)
FirstLookupFetch ==
    {f \in LookupFetches :
        \A g \in LookupFetches :
            \/ f.task[2][1] < g.task[2][1]
            \/ /\ f.task[2][1] = g.task[2][1]
               /\ Position(f.task[2][2]) <= Position(g.task[2][2])}

Init ==
    /\ GC_TOKEN = LoadSession(<<>>).GC_TOKEN
    /\ GC_REGION = LoadSession(<<>>).GC_REGION
    /\ sessionStorage = <<>>
    /\ network = {}
    /\ call = IdleCall
    /\ walks = <<>>
    /\ InitPage

Next ==
    \/ \E h \in Fragments : Navigate(h)
    \/ Mount
    \/ \E n \in {1, 2} : StepperClick(n)
    \/ Back
    \/ \E clientId \in ClientIds \cup {""} : TypeClientId(clientId)
    \/ \E region \in Regions : SelectRegion(region)
    \/ SignIn
    \/ \E f \in network, res \in MeResponses : SettleMe(f, res)
    \/ \E f \in FirstLookupFetch : \E res \in LookupResponses(f) : SettleWalk(f, res)

Spec == Init /\ [][Next]_vars

-----------------------------------------------------------------------------
(* A returning tab: one loadLookups, its fetches settling in any order *)

InitLoad ==
    /\ \E t \in Tokens, r \in Regions :
          LET s == setRegion(setToken(LoadSession(<<>>), t), r)
          IN /\ GC_TOKEN = s.GC_TOKEN
             /\ GC_REGION = s.GC_REGION
             /\ sessionStorage = s.sessionStorage
    /\ network = {}
    /\ call = IdleCall
    /\ walks = <<>>
    /\ InitPage

NextLoad ==
    \/ Mount
    \/ \E f \in network, res \in MeResponses : SettleMe(f, res)
    \/ \E f \in LookupFetches : \E res \in LookupResponses(f) : SettleWalk(f, res)

SpecLoad == InitLoad /\ [][NextLoad]_vars

-----------------------------------------------------------------------------
(* The criteria screen, app.js:186-197 and 302-380 *)

MaxSelected == 2

ListFields ==
    {"queues", "users", "workTeams", "wrapUpCodes", "skills", "languages",
     "includeTopics", "excludeTopics", "includeCategories", "excludeCategories"}

AdvancedFields ==
    {"includeTopics", "excludeTopics", "includeCategories", "excludeCategories"}

\* The lookup list each MultiSelect is given as its options.
OptionsOf(field) ==
    CASE field = "wrapUpCodes" -> "wrapUps"
      [] field \in {"includeTopics", "excludeTopics"} -> "topics"
      [] field \in {"includeCategories", "excludeCategories"} -> "categories"
      [] OTHER -> field

\* value.filter(v => v !== id)
Without(value, id) == SelectSeq(value, LAMBDA v : v # id)

Includes(value, id) == \E k \in 1..Len(value) : value[k] = id

\* MultiSelect's toggle(id) and remove(id): the value handed to onChange.
toggle(value, id) == IF Includes(value, id) THEN Without(value, id) ELSE Append(value, id)
remove(value, id) == Without(value, id)

\* The onChange of a MultiSelect: setCriteria({ ...criteria, field: v }), the
\* topic and category lists switching useTopics and useCategories on.
onChange(c, field, v) ==
    LET set == [c EXCEPT ![field] = v]
    IN IF field \in {"includeTopics", "excludeTopics"} THEN [set EXCEPT !.useTopics = TRUE]
       ELSE IF field \in {"includeCategories", "excludeCategories"}
       THEN [set EXCEPT !.useCategories = TRUE]
       ELSE set

\* Criteria is rendered at step 2 while no load is marked as running, its
\* advanced lists only with useAdvanced.
CriteriaShown == page = "app" /\ mounted /\ step = 2 /\ ~loadingLookups

Shown(field) == CriteriaShown /\ (field \in AdvancedFields => criteria.useAdvanced)

OptionIds(field) ==
    {lookups[OptionsOf(field)][k].id : k \in 1..Len(lookups[OptionsOf(field)])}

\* How many ids the list fields hold in all.
Selected(c) ==
    Len(c.queues) + Len(c.users) + Len(c.workTeams) + Len(c.wrapUpCodes)
    + Len(c.skills) + Len(c.languages) + Len(c.includeTopics) + Len(c.excludeTopics)
    + Len(c.includeCategories) + Len(c.excludeCategories)

\* The ids the lookup endpoints hold.
CatalogueIds ==
    UNION {{CatalogueEntity(r, n).id : n \in 1..CataloguePages(r)} : r \in Resources}

\* A click on an option of a list whatever the options of the list are.
ToggleOption_anyId(field, id) ==
    /\ Shown(field)
    /\ LET v == toggle(criteria[field], id)
       IN /\ Len(v) > Len(criteria[field]) => Selected(criteria) < MaxSelected
          /\ criteria' = onChange(criteria, field, v)
    /\ UNCHANGED <<sessionVars, network, call, walks, browserVars, step, me,
                   loadingLookups, lookups, splash, loads>>

\* A click on an option of the dropdown of a MultiSelect.
ToggleOption(field, id) ==
    /\ Shown(field)
    /\ id \in OptionIds(field)
    /\ LET v == toggle(criteria[field], id)
       IN /\ Len(v) > Len(criteria[field]) => Selected(criteria) < MaxSelected
          /\ criteria' = onChange(criteria, field, v)
    /\ UNCHANGED <<sessionVars, network, call, walks, browserVars, step, me,
                   loadingLookups, lookups, splash, loads>>

\* A click on the X of a selected value.
RemoveOption(field, id) ==
    /\ Shown(field)
    /\ Includes(criteria[field], id)
    /\ criteria' = onChange(criteria, field, remove(criteria[field], id))
    /\ UNCHANGED <<sessionVars, network, call, walks, browserVars, step, me,
                   loadingLookups, lookups, splash, loads>>

\* The "Advanced filters" checkbox.
ToggleAdvanced ==
    /\ CriteriaShown
    /\ criteria' = [criteria EXCEPT !.useAdvanced = ~@]
    /\ UNCHANGED <<sessionVars, network, call, walks, browserVars, step, me,
                   loadingLookups, lookups, splash, loads>>

\* The tabs that load the app: a fresh one, one returning from the provider
\* after Sign in, one that holds a session already, and a fresh one handed a
\* fragment without a state.  Each is <<sessionStorage, fragment>>.
Tabs ==
    {<<(<<>>), (<<>>)>>,
     <<("gc_region" :> "mypurecloud.ie"),
       (<<(<<"access_token", "tokA">>), (<<"token_type", "bearer">>),
          (<<"expires_in", "3600">>), (<<"state", "qpw|mypurecloud.ie">>)>>)>>,
     <<("gc_token" :> "tokB" @@ "gc_region" :> "mypurecloud.ie"), (<<>>)>>,
     <<(<<>>), (<<(<<"access_token", "tokA">>), (<<"token_type", "bearer">>)>>)>>}

InitCriteria ==
    /\ \E tab \in Tabs :
          /\ sessionStorage = tab[1]
          /\ GC_TOKEN = LoadSession(tab[1]).GC_TOKEN
          /\ GC_REGION = LoadSession(tab[1]).GC_REGION
          /\ hash = tab[2]
    /\ network = {}
    /\ call = IdleCall
    /\ walks = <<>>
    /\ page = "app"
    /\ authorizeUrl = NoUrl
    /\ mounted = FALSE
    /\ InitReact

NextCriteria ==
    \/ Mount
    \/ \E n \in {1, 2} : StepperClick(n)
    \/ Back
    \/ \E clientId \in ClientIds : TypeClientId(clientId)
    \/ SignIn
    \/ \E f \in network, res \in MeResponses : SettleMe(f, res)
    \/ \E f \in FirstLookupFetch : \E res \in LookupResponses(f) : SettleWalk(f, res)
    \/ \E field \in ListFields, id \in CatalogueIds : ToggleOption(field, id)
    \/ \E field \in ListFields, id \in CatalogueIds : RemoveOption(field, id)
    \/ ToggleAdvanced

SpecCriteria == InitCriteria /\ [][NextCriteria]_vars

-----------------------------------------------------------------------------
(* buildUrl and parseAuthHash called on their own *)

MaxParams == 2
MaxElements == 2

QueryKeys == {<<"q">>, <<"a", "&", "b">>, <<"expand">>}

QueryTexts ==
    {<<>>, <<"a", " ", "b">>, <<"x", "&", "y", "=", "z">>, <<"%", "26">>, <<"a", "+", "b">>}

ElementTexts == {<<"a">>, <<"b", ",", "c">>}

QueryValues ==
    {Str(t) : t \in QueryTexts}
    \cup {Num(100)}
    \cup {Arr(a) : a \in UNION {[1..n -> ElementTexts] : n \in 0..MaxElements}}
    \cup {Nil(undefined), Nil(null)}

\* The query objects: up to MaxParams entries with distinct keys.
Queries ==
    {q \in UNION {[1..n -> QueryKeys \X QueryValues] : n \in 0..MaxParams} :
        \A j, k \in 1..Len(q) : j # k => q[j][1] # q[k][1]}

\* The fields a redirect fragment may carry, each absent or present.
Optional(key, values) == {<<>>} \cup {<<(<<(<<key>>), v>>)>> : v \in values}

AuthFieldLists ==
    {a \o b \o c \o d \o e :
        a \in Optional("foo", {<<"bar">>}),
        b \in Optional("access_token", {<<>>, <<"abc">>, <<"a", "+", "b", "=">>}),
        c \in Optional("token_type", {<<"bearer">>}),
        d \in Optional("expires_in", {<<>>, <<"3600">>, <<"abc">>}),
        e \in Optional("state", {<<>>, <<"qpw", "|", "mypurecloud.ie">>, <<"x", " ", "y">>})}

\* location.hash for a list of fields: "#" and the encoded fields, or the
\* fields without the "#".
Fragment(fields, sign) == (IF sign THEN <<"#">> ELSE <<>>) \o Serialize(fields)

InitCodec ==
    /\ sessionStorage = <<>>
    /\ GC_TOKEN = LoadSession(<<>>).GC_TOKEN
    /\ \/ /\ GC_REGION \in {"", "mypurecloud.ie"}
          /\ call \in {[state |-> "idle", fn |-> "buildUrl", path |-> "/api/v2/users",
                        query |-> q, result |-> Return(JsonNull)] : q \in Queries}
       \/ /\ GC_REGION = LoadSession(<<>>).GC_REGION
          /\ call \in {[state |-> "idle", fn |-> "parseAuthHash", fields |-> fs,
                        text |-> Fragment(fs, sign), result |-> Return(JsonNull)] :
                          fs \in AuthFieldLists, sign \in BOOLEAN}
    /\ network = {}
    /\ walks = <<>>
    /\ InitPage

CallBuildUrl ==
    /\ call.state = "idle"
    /\ call.fn = "buildUrl"
    /\ LET r == buildUrlText(Session, call.path, call.query)
       IN call' = [call EXCEPT !.state = IF r.ok THEN "returned" ELSE "threw",
                               !.result = r]
    /\ UNCHANGED <<sessionVars, network, walks, appVars>>

CallParseAuthHash ==
    /\ call.state = "idle"
    /\ call.fn = "parseAuthHash"
    /\ call' = [call EXCEPT !.state = "returned",
                            !.result = Return(parseAuthHashText(call.text))]
    /\ UNCHANGED <<sessionVars, network, walks, appVars>>

NextCodec == CallBuildUrl \/ CallParseAuthHash

SpecCodec == InitCodec /\ [][NextCodec]_vars

-----------------------------------------------------------------------------
(* Properties of the session store and the request layer (SpecClient) *)

\* C3: apiFetch called while the token or the region is absent throws and
\* issues no fetch, and every fetch in flight was issued with a non-empty
\* token and a non-empty region.
C3_FetchNeedsSession ==
    /\ [](\A f \in network : Truthy(f.token) /\ Truthy(f.region))
    /\ [][(/\ call.state # "awaiting"
           /\ call' # call
           /\ (~Truthy(GC_TOKEN) \/ ~Truthy(GC_REGION)))
          => (/\ call'.state = "threw"
              /\ ~call'.result.ok
              /\ network' = network)]_vars

C3_Witness ==
    /\ call.state = "threw"
    /\ call.result = Throw("Not authenticated")
    /\ GC_TOKEN = ""
    /\ GC_REGION = "mypurecloud.ie"
    /\ network = {}

\* C10: a storage key is present exactly when the in-memory field is
\* non-empty, then holds the same value, and never holds the empty string.
C10_StorageMirrorsMemory ==
    /\ ("gc_token" \in DOMAIN sessionStorage) <=> (GC_TOKEN # "")
    /\ ("gc_region" \in DOMAIN sessionStorage) <=> (GC_REGION # "")
    /\ GC_TOKEN # "" => sessionStorage["gc_token"] = GC_TOKEN
    /\ GC_REGION # "" => sessionStorage["gc_region"] = GC_REGION
    /\ \A k \in DOMAIN sessionStorage : sessionStorage[k] # ""

C10_Witness ==
    /\ GC_TOKEN = "tokB"
    /\ GC_REGION = ""
    /\ DOMAIN sessionStorage = {"gc_token"}
    /\ sessionStorage["gc_token"] = "tokB"

-----------------------------------------------------------------------------
(* Properties of the pagination walker and the fetchers (SpecWalk) *)

Settled(w) == w.status \in {"returned", "threw"}

\* The entities of a list of page bodies, in page order.
RECURSIVE Flatten(_)
Flatten(pages) ==
    IF pages = <<>> THEN <<>> ELSE PageEntities(pages[1]) \o Flatten(Tail(pages))

EveryPageContinues(w) ==
    /\ Len(w.received) = Len(w.requested)
    /\ \A k \in 1..Len(w.received) : Truthy(Field(w.received[k], "nextUri"))

\* C1: with a session, maxPages >= 1 and every response carrying nextUri,
\* the walk issues exactly maxPages requests and returns the pages' entities;
\* no walk ever issues more than maxPages requests.
C1_StopsAtMaxPages ==
    \A id \in DOMAIN walks :
        LET w == walks[id]
        IN /\ Len(w.requested) <= w.maxPages
           /\ (/\ Truthy(GC_TOKEN) /\ Truthy(GC_REGION)
               /\ w.maxPages >= 1
               /\ Settled(w)
               /\ EveryPageContinues(w))
              => (/\ w.status = "returned"
                  /\ Len(w.requested) = w.maxPages
                  /\ w.out = Flatten(w.received))

C1_Witness ==
    \E id \in DOMAIN walks :
        LET w == walks[id]
        IN /\ w.maxPages >= 2
           /\ w.status = "returned"
           /\ EveryPageContinues(w)
           /\ Len(w.requested) = w.maxPages
           /\ Len(w.out) >= 2

NoRepeat(seq) == \A j, k \in 1..Len(seq) : j # k => seq[j] # seq[k]

FetchesOf(id) == {f \in network : f.task = <<"walk", id>>}

\* C8: a walk requests no page twice; a walk whose page request failed has
\* thrown, awaits nothing, and never issues another request or returns.
C8_FailureAbortsWalk ==
    /\ [](\A id \in DOMAIN walks :
            LET w == walks[id]
            IN /\ NoRepeat(w.requested)
               /\ (w.status # "awaiting" /\ Len(w.received) < Len(w.requested))
                  => (w.status = "threw" /\ w.error # "" /\ FetchesOf(id) = {}))
    /\ [][\A id \in DOMAIN walks :
            walks[id].status = "threw"
            => (walks'[id] = walks[id] /\ FetchesOf(id)' = {})]_vars

C8_Witness ==
    \E id \in DOMAIN walks :
        LET w == walks[id]
        IN /\ w.status = "threw"
           /\ Len(w.requested) = 2
           /\ Len(w.received) = 1
           /\ Len(w.out) >= 1
           /\ network = {}

NoList(data) == "entities" \notin DOMAIN data /\ "items" \notin DOMAIN data

\* C9: a received page that has neither entities nor items leaves out as it
\* was; if it has no nextUri either, the walk returns out without another
\* request.
C9_PageWithoutList ==
    [][\A id \in DOMAIN walks :
         (/\ id \in DOMAIN walks'
          /\ Len(walks'[id].received) = Len(walks[id].received) + 1
          /\ NoList(walks'[id].received[Len(walks'[id].received)]))
         => LET w == walks'[id]
                data == w.received[Len(w.received)]
            IN /\ w.out = walks[id].out
               /\ ~Truthy(Field(data, "nextUri"))
                  => (/\ w.status = "returned"
                      /\ w.requested = walks[id].requested
                      /\ FetchesOf(id)' = {})]_vars

C9_Witness ==
    \E id \in DOMAIN walks :
        LET w == walks[id]
        IN /\ w.status = "returned"
           /\ Len(w.requested) = 1
           /\ w.received = <<(<<>>)>>
           /\ w.out = <<>>

\* C4 as claimed: every option a fetcher produces has a non-empty label.
C4_LabelNeverEmpty ==
    \A id \in DOMAIN walks :
        walks[id].status = "returned"
        => \A k \in 1..Len(walks[id].out) :
               Truthy(LookupOptions(id[2], walks[id].out)[k].label)

\* The pageNumber a walk starts from: the caller's, or 1.
StartPage(w) ==
    IF HasKey(w.params, "pageNumber") THEN Lookup(w.params, "pageNumber").num ELSE 1

\* C15: a walk has at most one request in flight; its requests are for the
\* pages start, start+1, ... in that order; every request but the last has
\* been answered with a page that carries nextUri; a page without nextUri
\* ends the walk with no further request; the result is the entities of the
\* received pages in page order.
C15_SequentialPages ==
    \A id \in DOMAIN walks :
        LET w == walks[id]
            asked == Len(w.requested)
            got == Len(w.received)
        IN /\ Cardinality(FetchesOf(id)) = (IF w.status = "awaiting" THEN 1 ELSE 0)
           /\ \A f \in FetchesOf(id) :
                  f.path = w.path \o "?"
                           \o QueryString(PageQuery(w.params, w.requested[asked], w.pageSize))
           /\ \A k \in 1..asked : w.requested[k] = StartPage(w) + k - 1
           /\ got <= asked /\ asked <= got + 1
           /\ w.status = "awaiting" => asked = got + 1
           /\ \A k \in 1..got : k < asked => Truthy(Field(w.received[k], "nextUri"))
           /\ \A k \in 1..got :
                  (IsNullData(w.received[k]) \/ ~Truthy(Field(w.received[k], "nextUri")))
                  => (k = got /\ asked = got /\ w.status = "returned")
           /\ w.status = "returned" => w.out = Flatten(w.received)

C15_Witness ==
    \E id \in DOMAIN walks :
        LET w == walks[id]
        IN /\ w.status = "returned"
           /\ w.requested = <<2, 3, 4>>
           /\ Len(w.received) = 3
           /\ ~Truthy(Field(w.received[3], "nextUri"))
           /\ Len(w.out) >= 3
           /\ network = {}

\* The parameters of a request with every array written as its key repeated
\* once per element.
RECURSIVE Repeated(_)
Repeated(params) ==
    IF params = <<>> THEN <<>>
    ELSE LET k == params[1][1]
             v == params[1][2]
         IN (IF "arr" \in DOMAIN v THEN [n \in 1..Len(v.arr) |-> <<k, v.arr[n]>>]
             ELSE <<(<<k, ParamString(v)>>)>>)
            \o Repeated(Tail(params))

\* C16 as claimed: the query string of every request of a walk is the base
\* parameters merged with pageNumber and pageSize, an array-valued parameter
\* written as its key repeated once per element in the array's order.
C16_ArrayParamRepeatsKey ==
    \A f \in LookupFetches :
        LET w == walks[f.task[2]]
            merged == Spread(Spread(w.params, "pageNumber", Str(String(w.pageNumber))),
                             "pageSize", Str(String(w.pageSize)))
        IN f.url = "https://api." \o f.region \o w.path \o "?" \o QueryString(Repeated(merged))

-----------------------------------------------------------------------------
(* Properties of loadLookups (SpecLoad) *)

FetchesOfLoad(i) == {f \in LookupFetches : f.task[2][1] = i}

\* C2: the step in which a walk of a pending loadLookups fails sets lookups
\* to the eight empty lists and ends the invocation, and lookups never has
\* some lists filled and others empty.
C2_FailureResetsAllLists ==
    /\ []((\E r \in Resources : lookups[r] = <<>>) => lookups = EmptyLookups)
    /\ [][\A f \in LookupFetches : \A res \in Failures :
            (loads[f.task[2][1]].status = "pending" /\ SettleWalk(f, res))
            => (/\ lookups' = EmptyLookups
                /\ loads'[f.task[2][1]].status = "reset"
                /\ ~loadingLookups')]_vars

C2_Witness ==
    /\ Len(loads) = 1
    /\ loads[1].status = "reset"
    /\ lookups = EmptyLookups
    /\ ~loadingLookups
    /\ network = {}

-----------------------------------------------------------------------------
(* Properties of the login flow (Spec) *)

\* C5 as claimed: the step in which a call is answered 401 clears the token
\* from memory and removes its storage key.
C5_UnauthorizedDestroysSession ==
    [][\A f \in network :
         (SettleMe(f, Unauthorized) \/ SettleWalk(f, Unauthorized))
         => (GC_TOKEN' = "" /\ "gc_token" \notin DOMAIN sessionStorage')]_vars

\* C6 as claimed: the step that consumes a fragment sets the token only if
\* the fragment's state is the state of the authorize URL built last.
C6_TokenOnlyWithMatchingState ==
    [][(/\ ~IsNullData(parseAuthHash(hash))
        /\ mounted'
        /\ hash' = <<>>
        /\ parseAuthHash(hash).state # Get(authorizeUrl.query, "state"))
       => GC_TOKEN' = GC_TOKEN]_vars

\* The /me probes SplashLogin has in flight.
SplashProbes == {f \in network : f.task = <<"me", "splash">>}

\* C11: once the page is mounted the location holds no fragment with an
\* access token, and a later mount of SplashLogin (Back or the stepper, from
\* step 2 to step 1) reads no token: the session, the location and the
\* requests in flight stay as they are.
C11_FragmentConsumedOnce ==
    /\ [](mounted => IsNullData(parseAuthHash(hash)))
    /\ [][(mounted /\ step = 2 /\ step' = 1 /\ mounted')
          => (/\ splash'.mounted
              /\ UNCHANGED <<sessionVars, hash, network>>)]_vars

C11_Witness ==
    /\ mounted
    /\ step = 1
    /\ splash.mounted
    /\ ~IsNullData(me)
    /\ GC_TOKEN = "tokA"
    /\ hash = <<>>
    /\ authorizeUrl = NoUrl

\* C12: the step that consumes a fragment seeds the token and makes one
\* apiFetch of /api/v2/users/me (in flight when the seeded session has a
\* region, failed at once with "Region not set" otherwise); the step in which
\* that probe fails removes it from the network and changes nothing else.
C12_ProbeFailureKeepsSession ==
    /\ [][(~IsNullData(parseAuthHash(hash)) /\ mounted' /\ hash' = <<>>)
          => (/\ GC_TOKEN' = parseAuthHash(hash).accessToken
              /\ Cardinality(SplashProbes') = (IF GC_REGION' # "" THEN 1 ELSE 0)
              /\ \A f \in SplashProbes' :
                     f.token = GC_TOKEN' /\ f.region = GC_REGION')]_vars
    /\ [][\A f \in SplashProbes : \A res \in Failures :
            SettleMe(f, res)
            => (/\ network' = network \ {f}
                /\ UNCHANGED <<sessionVars, browserVars, reactVars, loads, walks>>)]_vars

C12_Witness ==
    /\ mounted
    /\ step = 1
    /\ IsNullData(me)
    /\ GC_TOKEN = "tokB"
    /\ GC_REGION = "mypurecloud.ie"
    /\ sessionStorage = ("gc_token" :> "tokB" @@ "gc_region" :> "mypurecloud.ie")
    /\ hash = <<>>
    /\ authorizeUrl = NoUrl
    /\ network = {}
    /\ loads = <<>>

-----------------------------------------------------------------------------
(* Properties of buildUrl and parseAuthHash (SpecCodec) *)

\* The parameters a query object supplies, as <<key, value>> strings: an
\* entry without a value supplies none, an array one per element in order.
RECURSIVE Supplied(_)
Supplied(query) ==
    IF query = <<>> THEN <<>>
    ELSE LET k == Concat(query[1][1])
             v == query[1][2]
         IN (IF "nil" \in DOMAIN v THEN <<>>
             ELSE IF "arr" \in DOMAIN v
             THEN [n \in 1..Len(v.arr) |-> <<k, Concat(v.arr[n])>>]
             ELSE IF "num" \in DOMAIN v THEN <<(<<k, String(v.num)>>)>>
             ELSE <<(<<k, Concat(v.str)>>)>>)
            \o Supplied(Tail(query))

BuiltUrl == call.fn = "buildUrl" /\ call.state = "returned"

\* C13: the URL buildUrl returns is https://api.<region> and the path, and
\* its query string read back pair by pair is the list of the supplied
\* parameters, an array giving one pair per element in the array's order.
C13_QueryRoundTrip ==
    BuiltUrl
    => LET url == call.result.value
       IN /\ url[1] = "https://api." \o GC_REGION
          /\ url[2] = call.path
          /\ URLSearchParams(UrlQuery(url)) = Supplied(call.query)

C13_Witness ==
    /\ BuiltUrl
    /\ call.query = <<(<<(<<"a", "&", "b">>), Str(<<"x", "&", "y", "=", "z">>)>>),
                      (<<(<<"expand">>), Arr(<<(<<"b", ",", "c">>), (<<"a">>)>>)>>)>>
    /\ Concat(UrlQuery(call.result.value))
         = "a%26b=x%26y%3Dz&expand=b%2Cc&expand=a"

ParsedHash == call.fn = "parseAuthHash" /\ call.state = "returned"

\* The fields of the fragment handed to parseAuthHash, as strings.
FieldStrings == [k \in 1..Len(call.fields) |->
                    <<Concat(call.fields[k][1]), Concat(call.fields[k][2])>>]

\* What parseAuthHash returns when it returns a result: the four fields of
\* the fragment, expires_in as a number and 0 when missing or empty, state
\* "" when missing.
FieldsExtracted(r) ==
    /\ r.accessToken = Get(FieldStrings, "access_token")
    /\ r.tokenType = Get(FieldStrings, "token_type")
    /\ r.expiresIn = (IF Get(FieldStrings, "expires_in") \in {null, ""} THEN Num(0)
                      ELSE IF Get(FieldStrings, "expires_in") = "3600" THEN Num(3600)
                      ELSE NaN)
    /\ r.state = (IF Get(FieldStrings, "state") = null THEN ""
                  ELSE Get(FieldStrings, "state"))

\* C14 as claimed: the result is absent exactly when the fragment is empty
\* or has no access_token field, and holds the fragment's fields otherwise.
C14_AbsentIffNoField ==
    ParsedHash
    => LET r == call.result.value
       IN /\ IsNullData(r) <=> (call.fields = <<>> \/ Get(FieldStrings, "access_token") = null)
          /\ ~IsNullData(r) => FieldsExtracted(r)

\* C14 as amended: the result is absent exactly when the fragment has no
\* access_token field with a non-empty value, and holds the fragment's
\* fields otherwise.
C14_AbsentIffNoToken ==
    ParsedHash
    => LET r == call.result.value
       IN /\ IsNullData(r) <=> Get(FieldStrings, "access_token") \in {null, ""}
          /\ ~IsNullData(r) => FieldsExtracted(r)

C14_Witness ==
    /\ ParsedHash
    /\ Concat(call.text) = "#access_token=&token_type=bearer&state=qpw%7Cmypurecloud.ie"
    /\ IsNullData(call.result.value)

\* The loadLookups invocations that have not reached their finally block.
PendingLoads == {i \in DOMAIN loads : loads[i].status = "pending"}

\* C19 as claimed: at most one loadLookups invocation is in flight, and none
\* while loadingLookups is false.
C19_OneLoadInFlight ==
    /\ Cardinality(PendingLoads) <= 1
    /\ ~loadingLookups => PendingLoads = {}

\* C20 as claimed: once the page is mounted, and with it any fragment
\* processed, a non-empty token comes with a non-empty region.
C20_TokenImpliesRegion ==
    (page = "app" /\ mounted) => (GC_TOKEN # "" => GC_REGION # "")

\* C21 as claimed: the criteria screen is shown only while the session
\* holds a token.
C21_CriteriaNeedsToken ==
    (page = "app" /\ mounted /\ step = 2) => GC_TOKEN # ""

-----------------------------------------------------------------------------
(* Properties of the criteria screen (SpecCriteria) *)

\* The step taken by a click on Sign in, and the step in which SplashLogin's
\* effect consumes the fragment of a redirect return.
SignInStep == page = "app" /\ page' = "login"
RedirectReturnStep == ~IsNullData(parseAuthHash(hash)) /\ hash' = <<>> /\ page' = "app"

\* C17: a step that changes the token or the region, in memory or in
\* storage, is a click on Sign in or the consumption of a redirect fragment;
\* the settling of a probe or of a lookup page, the start and the end of a
\* loadLookups and every update of the criteria leave them as they are.
C17_SessionWrittenByFlowOnly ==
    /\ [][sessionVars' # sessionVars => (SignInStep \/ RedirectReturnStep)]_vars
    /\ [][(loads' # loads \/ walks' # walks \/ criteria' # criteria \/ me' # me
           \/ (network' # network /\ mounted))
          => (page' = "login" \/ sessionVars' = sessionVars)]_vars

C17_Witness ==
    /\ Len(loads) = 2
    /\ loads[1].status = "committed"
    /\ loads[2].status = "reset"
    /\ criteria.users # <<>>
    /\ criteria.useTopics
    /\ GC_TOKEN = "tokA"
    /\ sessionStorage = ("gc_token" :> "tokA" @@ "gc_region" :> "mypurecloud.ie")

\* The ids the committed loads of this page returned for the options of a field.
ReturnedIds(field) ==
    UNION {{loads[i].result[OptionsOf(field)][k].id :
                k \in 1..Len(loads[i].result[OptionsOf(field)])} :
              i \in {j \in DOMAIN loads : loads[j].status = "committed"}}

\* C18: every id in a list field of the criteria is the id of an option that
\* a committed lookup load of this page returned for that field's resource.
C18_SelectedIdsWereReturned ==
    \A field \in ListFields :
        \A k \in 1..Len(criteria[field]) : criteria[field][k] \in ReturnedIds(field)

C18_Witness ==
    /\ criteria.wrapUpCodes = <<"wrapUps-1">>
    /\ criteria.excludeTopics = <<"topics-1">>
    /\ lookups = EmptyLookups
    /\ Len(loads) = 2

====
